---- MODULE Spec2Model ----
(***************************************************************************)
(* Model of solve_kepler (experimental/rust_solver/src/main.rs): the       *)
(* construction of the mixed-integer linear model of a battery / grid /    *)
(* water-heater schedule, the call of the external solver and the          *)
(* extraction of the result.                                               *)
(*                                                                         *)
(* Units.  The source computes in f64; the model computes in integers:     *)
(*   time    one tick = 30 minutes (TicksPerHour ticks per hour), so that  *)
(*           slot_duration_h = dur / TicksPerHour and every *_hours field  *)
(*           of the configuration is a number of ticks;                    *)
(*   energy  one unit = 1 kW * 1 tick, so that power_kw * slot_duration_h  *)
(*           is power_kw * dur units; every *_kwh field is in units;       *)
(*   money   one unit = 0.05 SEK and prices are per energy unit, so that   *)
(*           a price or penalty of 0.1 SEK/kWh (curtailment) is 1;         *)
(*   efficiencies are numbers of EffDen-ths (EffDen = 1.0);                *)
(*   percentages stay percentages: x <= p * c / 100 is 100 * x <= p * c.   *)
(* The solver's continuous variables range over the integer grid of these  *)
(* units, cut at the bounds named below.                                   *)
(***************************************************************************)
EXTENDS Integers, Sequences, FiniteSets, TLC

VARIABLES cfg, pc, i, decl, obj, cons, sol, result

vars == <<cfg, pc, i, decl, obj, cons, sol, result>>

(***************************************************************************)
(* Bounds of the model.                                                    *)
(***************************************************************************)
\* longest horizon of the heater configurations
MaxT == 4
\* longest horizon of the battery configurations
MaxTB == 2
\* largest value a variable without a declared upper bound takes
MaxVal == 1

(***************************************************************************)
(* Units and the constants of the formulation.                             *)
(***************************************************************************)
TicksPerHour == 2
TicksPerDay == 48
EffDen == 2
\* min_soc_penalty = 1000.0, curtailment_penalty = 0.1,
\* load_shedding_penalty = 10000.0, import_breach_penalty = 5000.0 (x 10)
MinSocPenalty == 10000
CurtailmentPenalty == 1
LoadSheddingPenalty == 100000
ImportBreachPenalty == 50000

(***************************************************************************)
(* Arithmetic helpers.                                                     *)
(***************************************************************************)
Max(a, b) == IF a >= b THEN a ELSE b
Min(a, b) == IF a <= b THEN a ELSE b
\* f64::ceil of a / b for a >= 0, b > 0
CeilDiv(a, b) == (a + b - 1) \div b
\* `as usize` of a / b for a >= 0, b > 0: truncation
FloorDiv(a, b) == a \div b

RECURSIVE SumOver(_, _)
\* the sum of f over the finite set S of its domain
SumOver(f, S) ==
    IF S = {} THEN 0
    ELSE LET e == CHOOSE e \in S : TRUE IN f[e] + SumOver(f, S \ {e})

\* Option<T>
None == [some |-> FALSE, v |-> 0]
Some(x) == [some |-> TRUE, v |-> x]
\* Option<Vec<usize>>
NoneSet == [some |-> FALSE, v |-> {}]
SomeSet(s) == [some |-> TRUE, v |-> s]

Slots(c) == 0 .. (c.T - 1)
Bounds(c) == 0 .. c.T

(***************************************************************************)
(* SidecarInput: KeplerInput (slots, initial_soc_kwh) and KeplerConfig.    *)
(* Slot t starts at start0 + t * dur; load, pv and the prices are per      *)
(* slot.                                                                   *)
(***************************************************************************)
BaseConfig(T) ==
    [T |-> T, dur |-> 2, start0 |-> 0,
     load |-> [t \in 0 .. (T - 1) |-> 0],
     pv |-> [t \in 0 .. (T - 1) |-> 0],
     import_price |-> [t \in 0 .. (T - 1) |-> 1],
     export_price |-> [t \in 0 .. (T - 1) |-> 0],
     initial_soc_kwh |-> 0,
     capacity_kwh |-> 0,
     min_soc_percent |-> 0,
     max_soc_percent |-> 100,
     max_charge_power_kw |-> 0,
     max_discharge_power_kw |-> 0,
     charge_efficiency |-> EffDen,
     discharge_efficiency |-> EffDen,
     wear_cost_sek_per_kwh |-> 0,
     max_export_power_kw |-> None,
     max_import_power_kw |-> None,
     target_soc_kwh |-> None,
     target_soc_penalty_sek |-> 0,
     terminal_value_sek_kwh |-> 0,
     ramping_cost_sek_per_kw |-> 0,
     export_threshold_sek_per_kwh |-> 0,
     grid_import_limit_kw |-> None,
     water_heating_power_kw |-> 0,
     water_heating_min_kwh |-> 0,
     water_heating_max_gap_hours |-> 0,
     water_heated_today_kwh |-> 0,
     water_comfort_penalty_sek |-> 0,
     water_min_spacing_hours |-> 0,
     force_water_on_slots |-> NoneSet,
     water_block_start_penalty_sek |-> 0,
     defer_up_to_hours |-> 0,
     enable_export |-> TRUE]

(***************************************************************************)
(* Quantities solve_kepler derives from the input.                         *)
(***************************************************************************)
\* start_time of slot t, in ticks
StartTime(c, t) == c.start0 + t * c.dur
\* min_soc_kwh and max_soc_kwh, times 100
MinSocKwh100(c) == c.min_soc_percent * c.capacity_kwh
MaxSocKwh100(c) == c.max_soc_percent * c.capacity_kwh
MaxChargeKwh(c) == c.max_charge_power_kw * c.dur
MaxDischargeKwh(c) == c.max_discharge_power_kw * c.dur
WaterEnabled(c) == c.water_heating_power_kw > 0
GapVarsAllocated(c) == WaterEnabled(c) /\ c.water_heating_max_gap_hours > 0
\* eff_d
EffD(c) == IF c.discharge_efficiency > 0 THEN c.discharge_efficiency ELSE EffDen
\* water_heating_power_kw * slot_duration_h: the energy of one active slot
WaterSlotKwh(c) == c.water_heating_power_kw * c.dur

(***************************************************************************)
(* A constraint of the model: a kind, the slot (or boundary) t it is       *)
(* about, a set of slots idx and up to three numbers.                      *)
(***************************************************************************)
Con(kind, t, idx, p, q, r) ==
    [kind |-> kind, t |-> t, idx |-> idx, p |-> p, q |-> q, r |-> r]

(***************************************************************************)
(* An assignment of values to the variables of the model.                  *)
(***************************************************************************)
Zero(S) == [t \in S |-> 0]

ZeroAssignment(c) ==
    [imp |-> Zero(Slots(c)), exp |-> Zero(Slots(c)),
     ch |-> Zero(Slots(c)), dis |-> Zero(Slots(c)),
     curt |-> Zero(Slots(c)), shed |-> Zero(Slots(c)),
     breach |-> Zero(Slots(c)),
     rup |-> Zero(Slots(c)), rdn |-> Zero(Slots(c)),
     heat |-> Zero(Slots(c)), start |-> Zero(Slots(c)),
     gap1 |-> Zero(Slots(c)), gap2 |-> Zero(Slots(c)),
     soc |-> Zero(Bounds(c)), sviol |-> Zero(Bounds(c)),
     tunder |-> 0, tover |-> 0]

\* whether assignment x satisfies constraint k
Holds(k, x) ==
    CASE k.kind = "initial_soc" -> x.soc[0] = k.p
      [] k.kind = "balance" ->
            k.p + x.ch[k.t] + x.exp[k.t] + x.heat[k.t] * k.r + x.curt[k.t]
              = k.q + x.dis[k.t] + x.imp[k.t] + x.shed[k.t]
      [] k.kind = "dynamics" ->
            EffDen * k.q * x.soc[k.t + 1]
              = EffDen * k.q * x.soc[k.t] + x.ch[k.t] * k.p * k.q
                  - EffDen * EffDen * x.dis[k.t]
      [] k.kind = "soft_min_soc" -> 100 * x.soc[k.t] >= k.p - 100 * x.sviol[k.t]
      [] k.kind = "hard_max_soc" -> 100 * x.soc[k.t] <= k.p
      [] k.kind = "import_fuse" -> x.imp[k.t] <= k.p + x.breach[k.t]
      [] k.kind = "max_import" -> x.imp[k.t] <= k.p
      [] k.kind = "max_export" -> x.exp[k.t] <= k.p
      [] k.kind = "no_export" -> x.exp[k.t] = 0
      [] k.kind = "ramp" ->
            (x.ch[k.t] - x.dis[k.t]) - (x.ch[k.t - 1] - x.dis[k.t - 1])
              = x.rup[k.t] - x.rdn[k.t]
      [] k.kind = "ramp_up_zero" -> x.rup[k.t] = 0
      [] k.kind = "ramp_down_zero" -> x.rdn[k.t] = 0
      [] k.kind = "start_first" -> x.start[k.t] = x.heat[k.t]
      [] k.kind = "start_edge" -> x.start[k.t] >= x.heat[k.t] - x.heat[k.t - 1]
      [] k.kind = "force_on" -> x.heat[k.t] = 1
      [] k.kind = "target_under" -> x.soc[k.t] >= k.p - x.tunder
      [] k.kind = "target_over" -> x.soc[k.t] <= k.p + x.tover
      [] k.kind = "daily" -> SumOver(x.heat, k.idx) * k.q >= k.p
      [] k.kind = "gap_tier1" -> SumOver(x.heat, k.idx) + x.gap1[k.t] >= 1
      [] k.kind = "gap_tier2" -> SumOver(x.heat, k.idx) + x.gap2[k.t] >= 1
      [] k.kind = "spacing" -> SumOver(x.heat, k.idx) + x.start[k.t] * k.p <= k.p
      [] OTHER -> FALSE

(***************************************************************************)
(* The variables solve_kepler declares, with their bounds: imports,        *)
(* exports and all slacks are >= 0, charge and discharge are bounded by    *)
(* the power limits, the state of charge by [0, capacity]; the heater      *)
(* indicators are binary and exist only when water heating is enabled.     *)
(***************************************************************************)
DeclaredVariables(c) ==
    [max_charge_kwh |-> MaxChargeKwh(c),
     max_discharge_kwh |-> MaxDischargeKwh(c),
     soc_max |-> c.capacity_kwh,
     water |-> WaterEnabled(c),
     gap |-> GapVarsAllocated(c)]

\* whether x respects the declared bounds d (every value is a natural number)
InBounds(x, d) ==
    /\ \A t \in DOMAIN x.ch : x.ch[t] <= d.max_charge_kwh
    /\ \A t \in DOMAIN x.dis : x.dis[t] <= d.max_discharge_kwh
    /\ \A t \in DOMAIN x.soc : x.soc[t] <= d.soc_max
    /\ \A t \in DOMAIN x.heat : x.heat[t] <= (IF d.water THEN 1 ELSE 0)
    /\ \A t \in DOMAIN x.start : x.start[t] <= (IF d.water THEN 1 ELSE 0)
    /\ \A t \in DOMAIN x.gap1 : d.gap \/ x.gap1[t] = 0
    /\ \A t \in DOMAIN x.gap2 : d.gap \/ x.gap2[t] = 0

(***************************************************************************)
(* The objective, as the coefficient of every variable.  The ramping term  *)
(* is ramping_cost / slot_duration_h per kWh, so all coefficients are      *)
(* multiplied by dur: Cost is the objective times dur.                     *)
(***************************************************************************)
TargetUnderCoef(c) ==
    IF c.target_soc_kwh.some THEN c.target_soc_penalty_sek * c.dur ELSE 0

\* the over-shoot charged whatever the target
TargetOverCoefAlways(c) ==
    IF c.target_soc_kwh.some THEN c.target_soc_penalty_sek * c.dur ELSE 0

TargetOverCoef(c) ==
    IF c.target_soc_kwh.some /\ c.target_soc_kwh.v > 0
    THEN c.target_soc_penalty_sek * c.dur ELSE 0

Objective(c) ==
    [imp |-> [t \in Slots(c) |-> c.import_price[t] * c.dur],
     exp |-> [t \in Slots(c) |->
                 (0 - (c.export_price[t] - c.export_threshold_sek_per_kwh)) * c.dur],
     wear |-> c.wear_cost_sek_per_kwh * c.dur,
     curt |-> CurtailmentPenalty * c.dur,
     shed |-> LoadSheddingPenalty * c.dur,
     breach |-> ImportBreachPenalty * c.dur,
     ramp |-> IF c.ramping_cost_sek_per_kw > 0 THEN c.ramping_cost_sek_per_kw ELSE 0,
     start |-> IF WaterEnabled(c) /\ c.water_block_start_penalty_sek > 0
               THEN c.water_block_start_penalty_sek * c.dur ELSE 0,
     sviol |-> MinSocPenalty * c.dur,
     soc_end |-> (0 - c.terminal_value_sek_kwh) * c.dur,
     tunder |-> TargetUnderCoef(c),
     tover |-> TargetOverCoef(c),
     gap |-> IF WaterEnabled(c) /\ c.water_heating_max_gap_hours > 0
                /\ c.water_comfort_penalty_sek > 0
             THEN c.water_comfort_penalty_sek * c.dur ELSE 0]

\* the value of objective o at assignment x over horizon T
Cost(o, x, T) ==
    LET S == 0 .. (T - 1)
        slot == [t \in S |->
                   o.imp[t] * x.imp[t] + o.exp[t] * x.exp[t]
                   + o.wear * (x.ch[t] + x.dis[t])
                   + o.curt * x.curt[t] + o.shed * x.shed[t]
                   + o.breach * x.breach[t]
                   + o.ramp * (x.rup[t] + x.rdn[t])
                   + o.start * x.start[t]
                   + o.gap * (x.gap1[t] + x.gap2[t])]
    IN SumOver(slot, S) + o.sviol * SumOver(x.sviol, 0 .. T)
       + o.soc_end * x.soc[T] + o.tunder * x.tunder + o.tover * x.tover

(***************************************************************************)
(* The constraints, in the order solve_kepler adds them.                   *)
(***************************************************************************)
InitialSocCons(c) == {Con("initial_soc", 0, {}, c.initial_soc_kwh, 0, 0)}

\* the energy balance without the water heater's draw
BalanceConsNoWater(c, t) ==
    {Con("balance", t, {}, c.load[t], c.pv[t], 0)}

\* 1. energy balance (with safety nets)
BalanceCons(c, t) ==
    {Con("balance", t, {}, c.load[t], c.pv[t],
         IF WaterEnabled(c) THEN WaterSlotKwh(c) ELSE 0)}

\* the battery dynamics with both efficiencies taken as 1.0
DynamicsConsLossless(c, t) ==
    {Con("dynamics", t, {}, EffDen, EffDen, 0)}

\* 2. battery dynamics
DynamicsCons(c, t) ==
    {Con("dynamics", t, {}, c.charge_efficiency, EffD(c), 0)}

SoftMinSocCons(c, t) == {Con("soft_min_soc", t, {}, MinSocKwh100(c), 0, 0)}

\* no hard maximum
HardMaxSocConsNone(c, t) == {}

HardMaxSocCons(c, t) == {Con("hard_max_soc", t, {}, MaxSocKwh100(c), 0, 0)}

\* 3. the soft fuse limit and the hard import / export caps
ImportExportLimitCons(c, t) ==
    (IF c.grid_import_limit_kw.some
     THEN {Con("import_fuse", t, {}, c.grid_import_limit_kw.v * c.dur, 0, 0)}
     ELSE {})
    \cup (IF c.max_import_power_kw.some
          THEN {Con("max_import", t, {}, c.max_import_power_kw.v * c.dur, 0, 0)}
          ELSE {})
    \cup (IF c.max_export_power_kw.some
          THEN {Con("max_export", t, {}, c.max_export_power_kw.v * c.dur, 0, 0)}
          ELSE {})

\* 4. export toggle
ExportToggleCons(c, t) ==
    IF ~c.enable_export THEN {Con("no_export", t, {}, 0, 0, 0)} ELSE {}

\* 5. ramping
RampCons(c, t) ==
    IF t > 0 THEN {Con("ramp", t, {}, 0, 0, 0)}
    ELSE {Con("ramp_up_zero", t, {}, 0, 0, 0), Con("ramp_down_zero", t, {}, 0, 0, 0)}

\* 6. water start logic
WaterStartCons(c, t) ==
    IF ~WaterEnabled(c) THEN {}
    ELSE IF t = 0 THEN {Con("start_first", t, {}, 0, 0, 0)}
    ELSE {Con("start_edge", t, {}, 0, 0, 0)}

\* 7. force water on
ForceWaterCons(c, t) ==
    IF WaterEnabled(c) /\ c.force_water_on_slots.some
       /\ t \in c.force_water_on_slots.v
    THEN {Con("force_on", t, {}, 0, 0, 0)} ELSE {}

\* one iteration of the slot loop
SlotCons(c, t) ==
    BalanceCons(c, t) \cup DynamicsCons(c, t) \cup SoftMinSocCons(c, t)
    \cup HardMaxSocCons(c, t) \cup ImportExportLimitCons(c, t)
    \cup ExportToggleCons(c, t) \cup RampCons(c, t)
    \cup WaterStartCons(c, t) \cup ForceWaterCons(c, t)

\* terminal soft minimum and the target state of charge
TargetCons(c) ==
    IF c.target_soc_kwh.some
    THEN {Con("target_under", c.T, {}, c.target_soc_kwh.v, 0, 0),
          Con("target_over", c.T, {}, c.target_soc_kwh.v, 0, 0)}
    ELSE {}

TerminalCons(c) == SoftMinSocCons(c, c.T) \cup TargetCons(c)

\* 8. water heating daily requirement
HourOf(tick) == (tick % TicksPerDay) \div TicksPerHour
DateOf(tick) == tick \div TicksPerDay

\* the key of slot t in slots_by_day
EffectiveDate(c, t) ==
    IF c.defer_up_to_hours > 0
       /\ HourOf(StartTime(c, t)) * TicksPerHour < c.defer_up_to_hours
    THEN DateOf(StartTime(c, t)) - 1
    ELSE DateOf(StartTime(c, t))

SlotsByDay(c) ==
    LET days == {EffectiveDate(c, t) : t \in Slots(c)}
    IN [d \in days |-> {t \in Slots(c) : EffectiveDate(c, t) = d}]

\* the carry-over subtracted from every group
DayReqEveryDay(c, d) ==
    Max(c.water_heating_min_kwh - c.water_heated_today_kwh, 0)

\* day_req of the group with key d, the keys being iterated in order
DayReq(c, d) ==
    IF \A e \in DOMAIN SlotsByDay(c) : d <= e
    THEN Max(c.water_heating_min_kwh - c.water_heated_today_kwh, 0)
    ELSE c.water_heating_min_kwh

DailyCons(c) ==
    IF WaterEnabled(c) /\ c.water_heating_min_kwh > 0
    THEN {Con("daily", d, SlotsByDay(c)[d], DayReq(c, d), WaterSlotKwh(c), 0) :
             d \in {e \in DOMAIN SlotsByDay(c) : DayReq(c, e) > 0}}
    ELSE {}

\* 9. water comfort gap (soft), two tiers
\* the tier-1 window rounded up
GapSlotsCeil(c) ==
    Max(CeilDiv(c.water_heating_max_gap_hours, c.dur), 1)

\* gap_slots: (gap / slot_duration_h).max(1.0) as usize
GapSlots(c) ==
    Max(FloorDiv(c.water_heating_max_gap_hours, c.dur), 1)

\* gap_slots_2
GapSlots2(c) ==
    Max(FloorDiv(c.water_heating_max_gap_hours * 3, c.dur * 2), 1)

GapTierCons(c, kind, g) ==
    IF g <= c.T
    THEN {Con(kind, s, s .. (s + g - 1), g, 0, 0) : s \in 0 .. (c.T - g)}
    ELSE {}

GapCons(c) ==
    IF WaterEnabled(c) /\ c.water_heating_max_gap_hours > 0 /\ c.T > 0
    THEN GapTierCons(c, "gap_tier1", GapSlots(c))
         \cup GapTierCons(c, "gap_tier2", GapSlots2(c))
    ELSE {}

\* 10. water spacing (hard)
SpacingSlots(c) == CeilDiv(c.water_min_spacing_hours, c.dur)

\* a window one slot short
SpacingStartIdxShort(t, s) == Max(t - s + 1, 0)

\* t.saturating_sub(spacing_slots)
SpacingStartIdx(t, s) == Max(t - s, 0)

\* no spacing constraint at all
SpacingConsNone(c) == {}

SpacingCons(c) ==
    IF WaterEnabled(c) /\ c.water_min_spacing_hours > 0
    THEN {Con("spacing", t,
              SpacingStartIdx(t, SpacingSlots(c)) .. (t - 1),
              SpacingSlots(c), 0, 0) : t \in 1 .. (c.T - 1)}
    ELSE {}

(***************************************************************************)
(* The external solver (HiGHS through good_lp): model.solve() returns an   *)
(* assignment that satisfies every constraint and the declared bounds and  *)
(* minimises the objective, or an error when there is none (infeasible) or *)
(* when the objective is unbounded below.                                  *)
(***************************************************************************)
Feasible(x, d, C) == InBounds(x, d) /\ \A k \in C : Holds(k, x)

\* x satisfies the constraints of C whose kind is in K
HoldsKinds(K, C, x) == \A k \in C : k.kind \in K => Holds(k, x)

CoreKinds == {"initial_soc", "dynamics", "hard_max_soc"}
RampKinds == {"ramp", "ramp_up_zero", "ramp_down_zero"}
SocSlackKinds == {"soft_min_soc"}
TargetKinds == {"target_under", "target_over"}
HeaterKinds == {"start_first", "start_edge", "force_on", "daily", "spacing"}
GapKinds == {"gap_tier1", "gap_tier2"}
GridKinds == {"balance", "import_fuse", "max_import", "max_export", "no_export"}

\* the assignments of P that keep the constraints of the kinds K
Extend(P, K, C) == {y \in P : HoldsKinds(K, C, y)}

PutCore(x, v) == [x EXCEPT !.ch = v.ch, !.dis = v.dis, !.soc = v.soc]
PutRamp(x, v) == [x EXCEPT !.rup = v.rup, !.rdn = v.rdn]
PutSocSlack(x, v) == [x EXCEPT !.sviol = v]
PutTarget(x, v) == [x EXCEPT !.tunder = v.tunder, !.tover = v.tover]
PutHeater(x, v) == [x EXCEPT !.heat = v.heat, !.start = v.start]
PutGap(x, v) == [x EXCEPT !.gap1 = v.gap1, !.gap2 = v.gap2]
PutGrid(x, v) ==
    [x EXCEPT !.imp = v.imp, !.exp = v.exp, !.curt = v.curt,
              !.shed = v.shed, !.breach = v.breach]

\* the grid the solver searches for configuration c: every variable within
\* its declared bounds, the ones without an upper bound up to MaxVal; the
\* set is built group by group, dropping early what breaks a constraint
Candidates(c, d, C) ==
    LET S == Slots(c)
        B == Bounds(c)
        U == 0 .. MaxVal
        a1 == Extend({PutCore(x, v) :
                         x \in {ZeroAssignment(c)},
                         v \in [ch : [S -> 0 .. d.max_charge_kwh],
                                dis : [S -> 0 .. d.max_discharge_kwh],
                                soc : [B -> 0 .. d.soc_max]]},
                     CoreKinds, C)
        a2 == Extend({PutRamp(x, v) :
                         x \in a1,
                         v \in [rup : [S -> U], rdn : [S -> U]]},
                     RampKinds, C)
        a3 == Extend({PutSocSlack(x, v) :
                         x \in a2,
                         v \in [B -> U]},
                     SocSlackKinds, C)
        a4 == Extend({PutTarget(x, v) :
                         x \in a3,
                         v \in [tunder : U, tover : U]},
                     TargetKinds, C)
        a5 == IF d.water
              THEN Extend({PutHeater(x, v) :
                              x \in a4,
                              v \in [heat : [S -> 0 .. 1], start : [S -> 0 .. 1]]},
                          HeaterKinds, C)
              ELSE a4
        a6 == IF d.gap
              THEN Extend({PutGap(x, v) :
                              x \in a5,
                              v \in [gap1 : [S -> U], gap2 : [S -> U]]},
                          GapKinds, C)
              ELSE a5
    IN Extend({PutGrid(x, v) :
                  x \in a6,
                  v \in [imp : [S -> U], exp : [S -> U], curt : [S -> U],
                         shed : [S -> U], breach : [S -> U]]},
              GridKinds, C)

FeasibleSet(c, d, C) == {x \in Candidates(c, d, C) : Feasible(x, d, C)}

\* The objective is unbounded below when some slot has a direction of
\* negative cost along which every constraint keeps holding: more import
\* (with its fuse breach) or more load shedding on the supply side, matched
\* by more export or more curtailment on the demand side.
Unbounded(o, C, T) ==
    \E t \in 0 .. (T - 1) :
        LET has(kind) == \E k \in C : k.kind = kind /\ k.t = t
            supply == (IF has("max_import") THEN {}
                       ELSE {o.imp[t] + (IF has("import_fuse") THEN o.breach ELSE 0)})
                      \cup {o.shed}
            demand == (IF has("max_export") \/ has("no_export") THEN {}
                       ELSE {o.exp[t]})
                      \cup {o.curt}
        IN \E a \in supply, b \in demand : a + b < 0

\* the assignments model.solve() may return
Solutions(c, d, o, C) ==
    LET F == FeasibleSet(c, d, C)
        costs == {Cost(o, x, c.T) : x \in F}
        least == CHOOSE m \in costs : \A n \in costs : m <= n
    IN IF F = {} \/ Unbounded(o, C, c.T) THEN {}
       ELSE {x \in F : Cost(o, x, c.T) = least}

(***************************************************************************)
(* KeplerResult.  total_cost_sek is the objective at the solution, here    *)
(* times dur as Cost is.                                                   *)
(***************************************************************************)
NoSolution == [some |-> FALSE, x |-> ZeroAssignment(BaseConfig(0))]
NoResult == [status |-> "none", slots |-> <<>>, total_cost_sek |-> 0,
             is_optimal |-> FALSE, status_msg |-> ""]
ErrorResult == [status |-> "err", slots |-> <<>>, total_cost_sek |-> 0,
                is_optimal |-> FALSE, status_msg |-> "Solver failed"]

\* an empty result not flagged optimal
EmptyResultNotOptimal ==
    [status |-> "ok", slots |-> <<>>, total_cost_sek |-> 0,
     is_optimal |-> FALSE, status_msg |-> "No slots"]

\* the result for an empty horizon
EmptyResult ==
    [status |-> "ok", slots |-> <<>>, total_cost_sek |-> 0,
     is_optimal |-> TRUE, status_msg |-> "No slots"]

\* the KeplerResultSlot of slot t
ResultSlot(c, x, t) ==
    [charge_kwh |-> x.ch[t], discharge_kwh |-> x.dis[t],
     grid_import_kwh |-> x.imp[t], grid_export_kwh |-> x.exp[t],
     soc_kwh |-> x.soc[t + 1],
     cost_sek |-> x.imp[t] * c.import_price[t] - x.exp[t] * c.export_price[t],
     water_heat_kw |-> IF WaterEnabled(c) /\ x.heat[t] >= 1
                       THEN c.water_heating_power_kw ELSE 0,
     terminal_credit_sek |-> 0]

OptimalResult(c, o, x) ==
    [status |-> "ok",
     slots |-> [n \in 1 .. c.T |-> ResultSlot(c, x, n - 1)],
     total_cost_sek |-> Cost(o, x, c.T),
     is_optimal |-> TRUE, status_msg |-> "Optimal"]

(***************************************************************************)
(* The steps of solve_kepler.                                              *)
(***************************************************************************)
\* if t_total == 0 { return Ok(..) }
ZeroSlots ==
    /\ pc = "start"
    /\ cfg.T = 0
    /\ result' = EmptyResult
    /\ pc' = "done"
    /\ UNCHANGED <<cfg, i, decl, obj, cons, sol>>

DeclareVariables ==
    /\ pc = "start"
    /\ cfg.T > 0
    /\ decl' = DeclaredVariables(cfg)
    /\ pc' = "objective"
    /\ UNCHANGED <<cfg, i, obj, cons, sol, result>>

BuildObjective ==
    /\ pc = "objective"
    /\ obj' = Objective(cfg)
    /\ pc' = "initial_soc"
    /\ UNCHANGED <<cfg, i, decl, cons, sol, result>>

AddInitialSoc ==
    /\ pc = "initial_soc"
    /\ cons' = cons \cup InitialSocCons(cfg)
    /\ i' = 0
    /\ pc' = "slots"
    /\ UNCHANGED <<cfg, decl, obj, sol, result>>

\* one iteration of `for t in 0..t_total`
AddSlotConstraints ==
    /\ pc = "slots"
    /\ i < cfg.T
    /\ cons' = cons \cup SlotCons(cfg, i)
    /\ i' = i + 1
    /\ UNCHANGED <<cfg, pc, decl, obj, sol, result>>

AddTerminalConstraints ==
    /\ pc = "slots"
    /\ i = cfg.T
    /\ cons' = cons \cup TerminalCons(cfg)
    /\ pc' = "daily"
    /\ UNCHANGED <<cfg, i, decl, obj, sol, result>>

AddDailyRequirement ==
    /\ pc = "daily"
    /\ cons' = cons \cup DailyCons(cfg)
    /\ pc' = "gap"
    /\ UNCHANGED <<cfg, i, decl, obj, sol, result>>

AddComfortGap ==
    /\ pc = "gap"
    /\ cons' = cons \cup GapCons(cfg)
    /\ pc' = "spacing"
    /\ UNCHANGED <<cfg, i, decl, obj, sol, result>>

AddSpacing ==
    /\ pc = "spacing"
    /\ cons' = cons \cup SpacingCons(cfg)
    /\ pc' = "solve"
    /\ UNCHANGED <<cfg, i, decl, obj, sol, result>>

\* model.solve() returns a solution
SolveOk ==
    /\ pc = "solve"
    /\ \E x \in Solutions(cfg, decl, obj, cons) :
          sol' = [some |-> TRUE, x |-> x]
    /\ pc' = "extract"
    /\ UNCHANGED <<cfg, i, decl, obj, cons, result>>

\* model.solve() returns an error, which `?` propagates
SolveFail ==
    /\ pc = "solve"
    /\ Solutions(cfg, decl, obj, cons) = {}
    /\ result' = ErrorResult
    /\ pc' = "error"
    /\ UNCHANGED <<cfg, i, decl, obj, cons, sol>>

ExtractResult ==
    /\ pc = "extract"
    /\ result' = OptimalResult(cfg, obj, sol.x)
    /\ pc' = "done"
    /\ UNCHANGED <<cfg, i, decl, obj, cons, sol>>

InitWith(configs) ==
    /\ cfg \in configs
    /\ pc = "start"
    /\ i = 0
    /\ decl = DeclaredVariables(BaseConfig(0))
    /\ obj = Objective(BaseConfig(0))
    /\ cons = {}
    /\ sol = NoSolution
    /\ result = NoResult

(***************************************************************************)
(* Configurations.                                                         *)
(***************************************************************************)
Const(T, v) == [t \in 0 .. (T - 1) |-> v]

\* one slot of one tick: grid, export and curtailment, no battery, no heater
GridConfigs ==
    {[BaseConfig(1) EXCEPT !.dur = 1,
         !.load = Const(1, l), !.pv = Const(1, p),
         !.export_price = Const(1, e[1]),
         !.export_threshold_sek_per_kwh = e[2],
         !.enable_export = x,
         !.max_import_power_kw = m] :
        l \in 0 .. 1, p \in 0 .. 1, e \in {<<0, 0>>, <<0, 2>>, <<1, 0>>, <<2, 0>>},
        x \in BOOLEAN, m \in {None, Some(1)}}

\* one slot of one tick with a battery of capacity 2
BatteryConfigs1 ==
    {[BaseConfig(1) EXCEPT !.dur = 1,
         !.load = Const(1, l),
         !.capacity_kwh = 2, !.max_soc_percent = mx, !.min_soc_percent = mn,
         !.initial_soc_kwh = s0,
         !.max_charge_power_kw = 1, !.max_discharge_power_kw = 1,
         !.terminal_value_sek_kwh = tv,
         !.target_soc_kwh = tg, !.target_soc_penalty_sek = 2] :
        l \in 0 .. 1, mx \in {50, 100}, mn \in {0, 50}, s0 \in 0 .. 2,
        tv \in {0, 3}, tg \in {None, Some(0), Some(1)}}

\* one slot of one tick with the water heater
WaterConfigs1 ==
    {[BaseConfig(1) EXCEPT !.dur = 1,
         !.pv = Const(1, p),
         !.water_heating_power_kw = 1,
         !.force_water_on_slots = f,
         !.water_heating_min_kwh = mn,
         !.water_heating_max_gap_hours = g,
         !.water_comfort_penalty_sek = 3] :
        p \in 0 .. 1, f \in {NoneSet, SomeSet({0})}, mn \in 0 .. 2, g \in 0 .. 1}

\* empty horizons, under configurations of every kind
ZeroConfigs ==
    {[BaseConfig(0) EXCEPT
         !.capacity_kwh = cap, !.initial_soc_kwh = s0,
         !.water_heating_power_kw = w, !.water_heating_min_kwh = w,
         !.target_soc_kwh = tg, !.terminal_value_sek_kwh = tv] :
        cap \in {0, 2}, s0 \in 0 .. 3, w \in 0 .. 1,
        tg \in {None, Some(1)}, tv \in {0, 3}}

\* one slot with an initial state of charge outside [0, capacity]
InitialSocConfigs ==
    {[BaseConfig(1) EXCEPT !.dur = 1,
         !.capacity_kwh = 2, !.max_soc_percent = mx, !.min_soc_percent = mn,
         !.initial_soc_kwh = s0,
         !.max_charge_power_kw = 1, !.max_discharge_power_kw = 1] :
        mx \in {50, 100, 200}, mn \in {0, 50}, s0 \in {-1, 3}}

SolveConfigs ==
    ZeroConfigs \cup GridConfigs \cup BatteryConfigs1 \cup WaterConfigs1
        \cup InitialSocConfigs

(***************************************************************************)
(* The whole of solve_kepler, on horizons of at most one slot.             *)
(***************************************************************************)
Init == InitWith(SolveConfigs)

Next ==
    \/ ZeroSlots
    \/ DeclareVariables
    \/ BuildObjective
    \/ AddInitialSoc
    \/ AddSlotConstraints
    \/ AddTerminalConstraints
    \/ AddDailyRequirement
    \/ AddComfortGap
    \/ AddSpacing
    \/ SolveOk
    \/ SolveFail
    \/ ExtractResult

Spec == Init /\ [][Next]_vars

(***************************************************************************)
(* The construction of the model alone, solve_kepler up to the call of the *)
(* solver, on longer horizons.                                             *)
(***************************************************************************)
\* the heater with a minimum spacing and forced slots
SpacingConfigs ==
    {[BaseConfig(T) EXCEPT !.dur = d,
         !.water_heating_power_kw = 1,
         !.water_min_spacing_hours = sp,
         !.force_water_on_slots = f,
         !.water_heating_min_kwh = mn] :
        T \in 0 .. MaxT, d \in 1 .. 2, sp \in {0, 3, 6},
        f \in {NoneSet, SomeSet({2}), SomeSet({0})}, mn \in {0, 2}}

\* the heater with a daily requirement, across midnight (slots of one tick
\* or one hour) or over several days (slots of one day)
DailyConfigs ==
    {[BaseConfig(T) EXCEPT !.dur = d, !.start0 = s0,
         !.water_heating_power_kw = pw,
         !.water_heating_min_kwh = mn,
         !.water_heated_today_kwh = td,
         !.defer_up_to_hours = df] :
        T \in 0 .. MaxT, d \in {1, 2, TicksPerDay}, s0 \in {45, 46},
        pw \in 1 .. 2, mn \in 1 .. 3, td \in {0, 1, 5}, df \in {0, 2, 3}}

\* the heater with a comfort gap
GapConfigs ==
    {[BaseConfig(T) EXCEPT !.dur = d,
         !.water_heating_power_kw = 1,
         !.water_heating_max_gap_hours = g,
         !.water_comfort_penalty_sek = cp] :
        T \in 0 .. MaxT, d \in 1 .. 2, g \in 1 .. 5, cp \in {0, 3}}

\* a battery of capacity 2 with its efficiencies
BatteryConfigs ==
    {[BaseConfig(T) EXCEPT !.dur = d,
         !.capacity_kwh = 2, !.initial_soc_kwh = s0,
         !.max_soc_percent = mx,
         !.max_charge_power_kw = 1, !.max_discharge_power_kw = 1,
         !.charge_efficiency = ec, !.discharge_efficiency = ed] :
        T \in 0 .. MaxTB, d \in 1 .. 2, s0 \in 0 .. 2, mx \in {50, 100},
        ec \in 1 .. EffDen, ed \in 0 .. EffDen}

\* load, production and the heater's draw
BalanceConfigs ==
    {[BaseConfig(T) EXCEPT !.dur = d,
         !.load = Const(T, l), !.pv = Const(T, p),
         !.max_charge_power_kw = 1, !.max_discharge_power_kw = 1,
         !.capacity_kwh = 2,
         !.water_heating_power_kw = pw] :
        T \in 0 .. MaxTB, d \in 1 .. 2, l \in 0 .. 2, p \in 0 .. 2,
        pw \in -1 .. 2}

BuildConfigs ==
    SpacingConfigs \cup DailyConfigs \cup GapConfigs \cup BatteryConfigs
    \cup BalanceConfigs

InitBuild == InitWith(BuildConfigs)

NextBuild ==
    \/ ZeroSlots
    \/ DeclareVariables
    \/ BuildObjective
    \/ AddInitialSoc
    \/ AddSlotConstraints
    \/ AddTerminalConstraints
    \/ AddDailyRequirement
    \/ AddComfortGap
    \/ AddSpacing

BuildSpec == InitBuild /\ [][NextBuild]_vars

(***************************************************************************)
(* Properties of the whole of solve_kepler (Spec).                         *)
(***************************************************************************)
\* the model is complete: every constraint has been added
ModelBuilt == pc \in {"solve", "extract", "done", "error"} /\ cfg.T > 0

\* C3: Hard maximum state of charge.  Every assignment that satisfies the
\* constraints - in particular every one the solver returns - keeps
\* soc[t] <= max_soc_percent * capacity_kwh / 100 at each of the T + 1 slot
\* boundaries, the end of the horizon soc[T] included.
C3_HardMaxAtEveryBoundary ==
    sol.some =>
        \A t \in Bounds(cfg) :
            100 * sol.x.soc[t] <= cfg.max_soc_percent * cfg.capacity_kwh

\* the safety-valve slacks of an assignment are all zero
NoSafetyValve(x) ==
    \A t \in DOMAIN x.curt : x.curt[t] = 0 /\ x.shed[t] = 0 /\ x.breach[t] = 0

\* C8: Safety-valve slacks are a last resort.  When the model has a bounded
\* optimum, a cost-minimal assignment has curtailment, load shedding or
\* import breach above 0 in some slot only if no assignment satisfying the
\* constraints has all of these slacks equal to 0.
C8_SlacksLastResort ==
    (sol.some /\ ~NoSafetyValve(sol.x)) =>
        ~\E y \in FeasibleSet(cfg, decl, cons) : NoSafetyValve(y)

\* C9: Degenerate horizon.  For any configuration, zero slots give a
\* successful result with an empty slot list, total_cost_sek = 0 and
\* is_optimal = true; no variable is declared, no constraint is built and
\* the solver is not invoked.
C9_ZeroSlotsTrivialResult ==
    (cfg.T = 0 /\ pc # "start") =>
        /\ pc = "done"
        /\ result.status = "ok"
        /\ result.slots = <<>>
        /\ result.total_cost_sek = 0
        /\ result.is_optimal
        /\ cons = {}
        /\ ~sol.some

C9_Witness ==
    /\ cfg.T = 0 /\ pc = "done"
    /\ cfg.water_heating_power_kw > 0 /\ cfg.target_soc_kwh.some
    /\ cfg.initial_soc_kwh > cfg.capacity_kwh

\* the deviation cost of assignment x: what the objective charges for the
\* two target slacks
TargetCost(x) == obj.tunder * x.tunder + obj.tover * x.tover

\* C10 as stated: whenever target_soc_kwh is set (0 included), soc[T] lies
\* within [target - under, target + over], and the objective charges
\* target_soc_penalty_sek per kWh for both slacks, so that the solution pays
\* the penalty for its deviation from the target in either direction.
C10_BothDeviationsCharged ==
    (sol.some /\ cfg.target_soc_kwh.some) =>
        LET tg == cfg.target_soc_kwh.v
            pen == cfg.target_soc_penalty_sek * cfg.dur
            end == sol.x.soc[cfg.T]
        IN /\ tg - sol.x.tunder <= end /\ end <= tg + sol.x.tover
           /\ obj.tunder = pen /\ obj.tover = pen
           /\ TargetCost(sol.x) >= pen * (tg - end)
           /\ TargetCost(sol.x) >= pen * (end - tg)

\* C10, amended: whenever target_soc_kwh is set, every assignment that
\* satisfies the constraints has target - under <= soc[T] <= target + over;
\* the objective charges the penalty for the under-shoot slack, and for the
\* over-shoot slack only when the target is above 0: a state of charge
\* above a target of 0 costs nothing.
C10_DeviationChargedAboveZeroTarget ==
    (ModelBuilt /\ cfg.target_soc_kwh.some) =>
        LET tg == cfg.target_soc_kwh.v
            pen == cfg.target_soc_penalty_sek * cfg.dur
        IN /\ obj.tunder = pen
           /\ obj.tover = (IF tg > 0 THEN pen ELSE 0)
           /\ \A x \in FeasibleSet(cfg, decl, cons) :
                 /\ tg - x.tunder <= x.soc[cfg.T]
                 /\ x.soc[cfg.T] <= tg + x.tover
                 /\ TargetCost(x) >= pen * (tg - x.soc[cfg.T])
                 /\ tg > 0 => TargetCost(x) >= pen * (x.soc[cfg.T] - tg)

C10_Witness ==
    /\ sol.some
    /\ cfg.target_soc_kwh.some /\ cfg.target_soc_kwh.v > 0
    /\ cfg.target_soc_penalty_sek > 0
    /\ sol.x.soc[cfg.T] > cfg.target_soc_kwh.v
    /\ sol.x.tover > 0

(***************************************************************************)
(* Properties of the model solve_kepler builds (BuildSpec).  Each is about *)
(* the assignments of one group of variables and the constraints in which  *)
(* only that group occurs: an assignment of all variables that satisfies   *)
(* every constraint satisfies these in particular.                         *)
(***************************************************************************)
\* heater indicators that satisfy the start, force, daily and spacing
\* constraints
HeaterFeasible ==
    Extend({PutHeater(x, v) :
               x \in {ZeroAssignment(cfg)},
               v \in [heat : [Slots(cfg) -> 0 .. 1], start : [Slots(cfg) -> 0 .. 1]]},
           HeaterKinds, cons)

\* the slots of [max(0, t - S), t)
SpacingWindow(t, S) == {j \in 0 .. (t - 1) : j >= t - S}

\* C1: Heater spacing.  With water heating enabled and
\* water_min_spacing_hours > 0, S = ceil(spacing / slot duration): in every
\* assignment satisfying the constraints, for t in 1..T-1, heaterStart[t] = 1
\* implies that no slot of [max(0, t-S), t) is active, and so does an
\* off-to-on transition of heaterActive at t.
C1_HeaterSpacing ==
    (ModelBuilt /\ cfg.water_heating_power_kw > 0
        /\ cfg.water_min_spacing_hours > 0) =>
        LET S == CeilDiv(cfg.water_min_spacing_hours, cfg.dur)
        IN \A x \in HeaterFeasible : \A t \in 1 .. (cfg.T - 1) :
              /\ x.start[t] = 1 =>
                    \A j \in SpacingWindow(t, S) : x.heat[j] = 0
              /\ (x.heat[t - 1] = 0 /\ x.heat[t] = 1) =>
                    \A j \in SpacingWindow(t, S) : x.heat[j] = 0

\* a start at t with a clear window of S >= 2 slots right after an active slot
C1_Witness ==
    /\ ModelBuilt /\ cfg.water_heating_power_kw > 0
    /\ cfg.water_min_spacing_hours > 0
    /\ LET S == CeilDiv(cfg.water_min_spacing_hours, cfg.dur)
       IN /\ S >= 2
          /\ \E x \in HeaterFeasible : \E t \in 1 .. (cfg.T - 1) :
                /\ x.start[t] = 1 /\ x.heat[t] = 1 /\ t - S >= 1
                /\ x.heat[t - S - 1] = 1

\* Scenario C: four slots, the heater enabled, slot 2 forced on and a
\* minimum spacing that spans three slots
ScenarioC ==
    /\ ModelBuilt /\ cfg.T = 4 /\ cfg.water_heating_power_kw > 0
    /\ cfg.force_water_on_slots.some /\ 2 \in cfg.force_water_on_slots.v
    /\ cfg.water_min_spacing_hours > 0
    /\ CeilDiv(cfg.water_min_spacing_hours, cfg.dur) = 3

\* C2 as stated: in Scenario C every assignment satisfying the constraints
\* has heaterActive = 1 at slot 2 and heaterActive = 0 at every other slot.
C2_ScenarioCOnlySlot2 ==
    ScenarioC =>
        \A x \in HeaterFeasible :
            x.heat[2] = 1 /\ \A t \in Slots(cfg) \ {2} : x.heat[t] = 0

\* C2, amended: in Scenario C every assignment satisfying the constraints
\* has heaterActive = 1 at slot 2, and its active slots form one
\* uninterrupted run (which contains slot 2): the heater may stay on before
\* and after slot 2, it may not start a second time.
C2_ScenarioCOneRun ==
    ScenarioC =>
        \A x \in HeaterFeasible :
            /\ x.heat[2] = 1
            /\ \A a, b \in Slots(cfg) :
                  (a < b /\ x.heat[a] = 1 /\ x.heat[b] = 1) =>
                      \A m \in a .. b : x.heat[m] = 1

\* Scenario C with the heater on in the slots around slot 2 as well
C2_Witness ==
    /\ ScenarioC
    /\ \E x \in HeaterFeasible : x.heat[1] = 1 /\ x.heat[2] = 1 /\ x.heat[3] = 1

\* charge, discharge and state of charge that satisfy the initial value,
\* the battery dynamics and the hard maximum
BatteryFeasible ==
    Extend({PutCore(x, v) :
               x \in {ZeroAssignment(cfg)},
               v \in [ch : [Slots(cfg) -> 0 .. decl.max_charge_kwh],
                      dis : [Slots(cfg) -> 0 .. decl.max_discharge_kwh],
                      soc : [Bounds(cfg) -> 0 .. decl.soc_max]]},
           CoreKinds, cons)

\* discharge_efficiency, 0 replaced by 1.0
EtaD == IF cfg.discharge_efficiency = 0 THEN EffDen ELSE cfg.discharge_efficiency

\* EffDen * EtaD * (charge[t] * eta_c - discharge[t] / eta_d)
SocGain(x, t) ==
    x.ch[t] * cfg.charge_efficiency * EtaD - EffDen * EffDen * x.dis[t]

\* C4: Battery recurrence.  In every assignment satisfying the constraints
\* soc[0] = initial_soc_kwh and soc[t+1] = soc[t] + charge[t] * eta_c
\* - discharge[t] / eta_d for every slot t (eta_d = 0 replaced by 1.0);
\* hence the soc_kwh reported for result slot t is initial_soc_kwh plus the
\* gains of slots 0..t.
C4_BatteryRecurrence ==
    ModelBuilt =>
        \A x \in BatteryFeasible :
            /\ x.soc[0] = cfg.initial_soc_kwh
            /\ \A t \in Slots(cfg) :
                  /\ EffDen * EtaD * x.soc[t + 1]
                        = EffDen * EtaD * x.soc[t] + SocGain(x, t)
                  /\ EffDen * EtaD * ResultSlot(cfg, x, t).soc_kwh
                        = EffDen * EtaD * cfg.initial_soc_kwh
                          + SumOver([u \in Slots(cfg) |-> SocGain(x, u)], 0 .. t)

\* a lossy battery that charges in one slot and discharges in another
C4_Witness ==
    /\ ModelBuilt /\ cfg.T >= 2
    /\ cfg.charge_efficiency < EffDen /\ cfg.discharge_efficiency = 0
    /\ \E x \in BatteryFeasible :
          \E t, u \in Slots(cfg) : x.ch[t] > 0 /\ x.dis[u] > 0

\* the energy flows of slot t alone, every other variable being 0
SlotFlows(t) ==
    {[ZeroAssignment(cfg) EXCEPT
         !.imp[t] = v.imp, !.exp[t] = v.exp, !.ch[t] = v.ch, !.dis[t] = v.dis,
         !.curt[t] = v.curt, !.shed[t] = v.shed, !.heat[t] = v.heat] :
        v \in [imp : 0 .. MaxVal, exp : 0 .. MaxVal, ch : 0 .. MaxVal,
               dis : 0 .. MaxVal, curt : 0 .. MaxVal, shed : 0 .. MaxVal,
               heat : 0 .. 1]}

\* the flows of slot t that satisfy the energy balance of slot t
BalancedFlows(t) ==
    {x \in SlotFlows(t) :
        HoldsKinds({"balance"}, {k \in cons : k.t = t}, x)}

\* the heater's draw in slot t: 0 when water heating is disabled
HeaterDraw(x, t) ==
    IF cfg.water_heating_power_kw > 0
    THEN x.heat[t] * cfg.water_heating_power_kw * cfg.dur ELSE 0

\* C5: Energy balance.  In every assignment satisfying the constraints, for
\* every slot t, pv + discharge + import + loadShedding = load + charge
\* + export + heaterActive * water_heating_power_kw * slot duration
\* + curtailment, the heater term being 0 when water heating is disabled.
C5_EnergyBalance ==
    ModelBuilt =>
        \A t \in Slots(cfg) :
            /\ \E k \in cons : k.kind = "balance" /\ k.t = t
            /\ \A x \in BalancedFlows(t) :
                  cfg.pv[t] + x.dis[t] + x.imp[t] + x.shed[t]
                    = cfg.load[t] + x.ch[t] + x.exp[t] + HeaterDraw(x, t)
                      + x.curt[t]

\* a balanced slot with the heater on and both safety valves in use
C5_Witness ==
    /\ ModelBuilt /\ cfg.water_heating_power_kw > 0 /\ cfg.load[0] > 0
    /\ \E x \in BalancedFlows(0) :
          x.heat[0] = 1 /\ x.curt[0] > 0 /\ x.shed[0] > 0 /\ x.imp[0] > 0

\* the day a slot is accounted to: the date of its start time, one day
\* earlier when its start hour is below a positive defer_up_to_hours
AccountedDay(t) ==
    LET tick == cfg.start0 + t * cfg.dur
        hour == (tick % TicksPerDay) \div TicksPerHour
    IN IF cfg.defer_up_to_hours > 0 /\ TicksPerHour * hour < cfg.defer_up_to_hours
       THEN (tick \div TicksPerDay) - 1
       ELSE tick \div TicksPerDay

DayGroup(d) == {t \in Slots(cfg) : AccountedDay(t) = d}

AccountedDays == {AccountedDay(t) : t \in Slots(cfg)}

\* the requirement of day d: reduced by the energy already delivered for the
\* chronologically first day only
Requirement(d) ==
    IF \A e \in AccountedDays : d <= e
    THEN Max(0, cfg.water_heating_min_kwh - cfg.water_heated_today_kwh)
    ELSE cfg.water_heating_min_kwh

\* C6: Daily heating requirement.  With water heating enabled and
\* water_heating_min_kwh > 0, in every assignment satisfying the constraints
\* every day group has (active slots of the group) * rated power * slot
\* duration >= water_heating_min_kwh, the first group's requirement being
\* max(0, water_heating_min_kwh - water_heated_today_kwh); a group whose
\* requirement is 0 has no constraint.
C6_DailyRequirement ==
    (ModelBuilt /\ cfg.water_heating_power_kw > 0
        /\ cfg.water_heating_min_kwh > 0) =>
        /\ \A x \in HeaterFeasible : \A d \in AccountedDays :
              Cardinality({t \in DayGroup(d) : x.heat[t] = 1})
                  * cfg.water_heating_power_kw * cfg.dur >= Requirement(d)
        /\ \A d \in AccountedDays :
              Requirement(d) = 0 =>
                  ~\E k \in cons : k.kind = "daily" /\ k.idx = DayGroup(d)

\* two day groups, a slot deferred to the previous day, a first day that
\* is partly covered already and a second day that is heated in full
C6_Witness ==
    /\ ModelBuilt /\ cfg.water_heating_power_kw > 0
    /\ cfg.water_heating_min_kwh > 0 /\ cfg.water_heated_today_kwh > 0
    /\ Cardinality(AccountedDays) = 2
    /\ \E t \in Slots(cfg) :
          AccountedDay(t) # (cfg.start0 + t * cfg.dur) \div TicksPerDay
    /\ \E d \in AccountedDays :
          /\ 0 < Requirement(d) /\ Requirement(d) < cfg.water_heating_min_kwh
    /\ \E x \in HeaterFeasible : \A d \in AccountedDays :
          Cardinality({t \in DayGroup(d) : x.heat[t] = 1}) >= 1

\* heater indicators with the slacks of one tier of the comfort gap
PutGap1(x, v) == [x EXCEPT !.heat = v.heat, !.gap1 = v.gap1]
PutGap2(x, v) == [x EXCEPT !.heat = v.heat, !.gap2 = v.gap2]

Tier1Feasible ==
    Extend({PutGap1(x, v) :
               x \in {ZeroAssignment(cfg)},
               v \in [heat : [Slots(cfg) -> 0 .. 1], gap1 : [Slots(cfg) -> 0 .. MaxVal]]},
           {"gap_tier1"}, cons)

Tier2Feasible ==
    Extend({PutGap2(x, v) :
               x \in {ZeroAssignment(cfg)},
               v \in [heat : [Slots(cfg) -> 0 .. 1], gap2 : [Slots(cfg) -> 0 .. MaxVal]]},
           {"gap_tier2"}, cons)

\* the windows of G consecutive slots inside the horizon
Windows(G) == {s .. (s + G - 1) : s \in 0 .. (cfg.T - G)}

\* a tier of window size G: its constraints are on exactly the windows of G
\* slots, each window holds an active slot or its slack is at least 1, and
\* there is no constraint when G exceeds T
TierOfSize(kind, G, F) ==
    /\ {k.idx : k \in {c \in cons : c.kind = kind}} = Windows(G)
    /\ G <= cfg.T =>
          \A x \in F : \A s \in 0 .. (cfg.T - G) :
              SumOver(x.heat, s .. (s + G - 1))
                  + (IF kind = "gap_tier1" THEN x.gap1[s] ELSE x.gap2[s]) >= 1
    /\ G > cfg.T => ~\E k \in cons : k.kind = kind

GapEnabled ==
    /\ ModelBuilt /\ cfg.water_heating_power_kw > 0
    /\ cfg.water_heating_max_gap_hours > 0

\* C7 as stated: the tier-1 window size is max(1, ceil(gapHours / slot
\* duration)), the tier-2 window size the same of 1.5 * gapHours; every
\* window of a tier whose size does not exceed T satisfies (sum of
\* heaterActive) + gapViolation[window start] >= 1, a tier whose size
\* exceeds T adds no constraint.
C7_GapWindowsRoundedUp ==
    GapEnabled =>
        /\ TierOfSize("gap_tier1",
               Max(1, CeilDiv(cfg.water_heating_max_gap_hours, cfg.dur)),
               Tier1Feasible)
        /\ TierOfSize("gap_tier2",
               Max(1, CeilDiv(3 * cfg.water_heating_max_gap_hours, 2 * cfg.dur)),
               Tier2Feasible)

\* C7, amended: the window sizes are rounded down, max(1, floor(gapHours /
\* slot duration)) and max(1, floor(1.5 * gapHours / slot duration)); the
\* rest as stated.
C7_GapWindowsRoundedDown ==
    GapEnabled =>
        /\ TierOfSize("gap_tier1",
               Max(1, cfg.water_heating_max_gap_hours \div cfg.dur),
               Tier1Feasible)
        /\ TierOfSize("gap_tier2",
               Max(1, (3 * cfg.water_heating_max_gap_hours) \div (2 * cfg.dur)),
               Tier2Feasible)

\* a gap that is no multiple of the slot duration: a window of the
\* rounded-down size has its only active slot right after it, and its
\* slack pays for it
C7_Witness ==
    /\ GapEnabled
    /\ cfg.water_heating_max_gap_hours % cfg.dur # 0
    /\ cfg.water_heating_max_gap_hours > cfg.dur
    /\ LET G == Max(1, cfg.water_heating_max_gap_hours \div cfg.dur)
       IN /\ G < cfg.T
          /\ \E x \in Tier1Feasible :
                /\ SumOver(x.heat, 0 .. (G - 1)) = 0
                /\ x.heat[G] = 1
                /\ x.gap1[0] = 1

(***************************************************************************)
(* The initial state of charge (Spec).                                     *)
(***************************************************************************)
\* initial_soc_kwh above the hard maximum, above the capacity or below 0
InitialSocOutOfRange ==
    \/ 100 * cfg.initial_soc_kwh > cfg.max_soc_percent * cfg.capacity_kwh
    \/ cfg.initial_soc_kwh > cfg.capacity_kwh
    \/ cfg.initial_soc_kwh < 0

\* initial_soc_kwh in range and below the soft minimum
InitialSocBelowSoftMin ==
    /\ ~InitialSocOutOfRange
    /\ 100 * cfg.initial_soc_kwh < cfg.min_soc_percent * cfg.capacity_kwh

\* the battery assignments with the slacks of the soft minimum
SocSlackFeasible ==
    Extend({PutSocSlack(x, v) :
               x \in BatteryFeasible,
               v \in [Bounds(cfg) -> 0 .. MaxVal]},
           SocSlackKinds, cons)

\* C11: Initial state of charge out of range is fatal.  On a horizon of at
\* least one slot, if initial_soc_kwh is above max_soc_percent *
\* capacity_kwh / 100, above capacity_kwh or below 0, no assignment
\* satisfies the constraints, whatever the slacks: the solver has no
\* solution, solve_kepler returns the error and no result.  An
\* initial_soc_kwh in range and below the soft minimum leaves the battery
\* constraints satisfiable, and the whole model when the heater is disabled.
C11_InitialSocOutOfRangeFatal ==
    ModelBuilt =>
        /\ InitialSocOutOfRange =>
              /\ BatteryFeasible = {}
              /\ Solutions(cfg, decl, obj, cons) = {}
              /\ pc \in {"solve", "error"}
              /\ ~sol.some
              /\ result.status # "ok"
              /\ pc = "error" => result = ErrorResult
        /\ InitialSocBelowSoftMin =>
              /\ SocSlackFeasible # {}
              /\ cfg.water_heating_power_kw = 0 =>
                    FeasibleSet(cfg, decl, cons) # {}

\* the error returned for an initial state of charge between the hard
\* maximum and the capacity
C11_Witness ==
    /\ pc = "error" /\ cfg.T >= 1 /\ result = ErrorResult
    /\ 100 * cfg.initial_soc_kwh > cfg.max_soc_percent * cfg.capacity_kwh
    /\ 0 <= cfg.initial_soc_kwh /\ cfg.initial_soc_kwh <= cfg.capacity_kwh

====
